---------------------------- MODULE Spec2Model ----------------------------
(***************************************************************************)
(* Model of the confidence-backend HTTP API (src/server.js, lines 1-281;   *)
(* the text after line 281 is a second, never-mounted products router and  *)
(* a shadowed duplicate of GET /api/products).                             *)
(*                                                                         *)
(* Three specifications share the variables:                               *)
(*   SpecAuth   POST /api/register and POST /api/login, interleaved at     *)
(*              their awaits, over the credential store;                   *)
(*   SpecWrite  the admin-gated product routes and GET /api/products/:id   *)
(*              over the catalog store;                                    *)
(*   SpecList   GET /api/products (find, then countDocuments) interleaved  *)
(*              with product creates, updates and deletes.                 *)
(*                                                                         *)
(* JavaScript strings are sequences of one-character strings, so that      *)
(* parseInt, parseFloat, JSON.parse and the search RegExp are computed on  *)
(* the characters.  The value undefined is the one-element sequence        *)
(* <<"undefined">>, which is what String(undefined) reads as.              *)
(***************************************************************************)
EXTENDS Integers, Sequences, FiniteSets, TLC

VARIABLES users, nextUserId, reg, authResp, products, nextId, resp, list, made

vars == <<users, nextUserId, reg, authResp, products, nextId, resp, list, made>>

---------------------------------------------------------------------------
(* Bounds of the model *)

\* number of products ever created (ObjectIds 1..MaxProducts)
MaxProducts == 2
\* number of concurrent request slots for register/login
NumProcs == 2

---------------------------------------------------------------------------
(* JavaScript values *)

Undef == <<"undefined">>

\* JS truthiness of a string-or-undefined value: !x is true for undefined and ""
Truthy(s) == s # Undef /\ s # <<>>

\* JS numbers: finite decimals (integer part v, fraction digits f), NaN, Infinity
Num(v) == [k |-> "num", v |-> v, f |-> <<>>]
Dec(v, f) == [k |-> "num", v |-> v, f |-> f]
NaN == [k |-> "nan", v |-> 0, f |-> <<>>]
Infinity == [k |-> "inf", v |-> 0, f |-> <<>>]
NoNum == [k |-> "undefined", v |-> 0, f |-> <<>>]

IsNaN(x) == x.k = "nan"

Digits == {"0", "1", "2", "3", "4", "5", "6", "7", "8", "9"}

DigitVal(c) ==
    CASE c = "0" -> 0 [] c = "1" -> 1 [] c = "2" -> 2 [] c = "3" -> 3
      [] c = "4" -> 4 [] c = "5" -> 5 [] c = "6" -> 6 [] c = "7" -> 7
      [] c = "8" -> 8 [] c = "9" -> 9

RECURSIVE DigitPrefixLen(_)
DigitPrefixLen(s) ==
    IF s = <<>> \/ Head(s) \notin Digits THEN 0
    ELSE 1 + DigitPrefixLen(Tail(s))

RECURSIVE DigitsValue(_, _)
DigitsValue(s, acc) ==
    IF s = <<>> THEN acc
    ELSE DigitsValue(Tail(s), 10 * acc + DigitVal(Head(s)))

RECURSIVE TrimZeros(_)
TrimZeros(s) ==
    IF s # <<>> /\ s[Len(s)] = "0" THEN TrimZeros(SubSeq(s, 1, Len(s) - 1))
    ELSE s

\* parseInt(s): the longest prefix of decimal digits, NaN when there is none
\* (inputs here carry no whitespace, sign or 0x prefix)
ParseInt(s) ==
    LET n == DigitPrefixLen(s)
    IN  IF n = 0 THEN NaN ELSE Num(DigitsValue(SubSeq(s, 1, n), 0))

\* parseFloat(s): digits, optionally "." and digits; NaN when neither part has a digit
ParseFloat(s) ==
    LET n == DigitPrefixLen(s)
        rest == SubSeq(s, n + 1, Len(s))
        m == IF rest # <<>> /\ Head(rest) = "." THEN DigitPrefixLen(Tail(rest)) ELSE 0
        ip == IF n = 0 THEN 0 ELSE DigitsValue(SubSeq(s, 1, n), 0)
    IN  IF n = 0 /\ m = 0 THEN NaN
        ELSE Dec(ip, TrimZeros(SubSeq(rest, 2, m + 1)))


---------------------------------------------------------------------------
(* Strings *)

UpperCase ==
    <<"A", "B", "C", "D", "E", "F", "G", "H", "I", "J", "K", "L", "M",
      "N", "O", "P", "Q", "R", "S", "T", "U", "V", "W", "X", "Y", "Z">>
LowerCase ==
    <<"a", "b", "c", "d", "e", "f", "g", "h", "i", "j", "k", "l", "m",
      "n", "o", "p", "q", "r", "s", "t", "u", "v", "w", "x", "y", "z">>

ToLowerChar(c) ==
    IF \E i \in 1..26 : UpperCase[i] = c
    THEN LowerCase[CHOOSE i \in 1..26 : UpperCase[i] = c]
    ELSE c

ToLower(s) == [i \in 1..Len(s) |-> ToLowerChar(s[i])]

\* pat occurs in s as a contiguous run of characters
IsSubstring(pat, s) ==
    \E i \in 0..(Len(s) - Len(pat)) : SubSeq(s, i + 1, i + Len(pat)) = pat

\* new RegExp(search, 'i').test(field) for a search text of letters and digits
\* (no RegExp metacharacters among the inputs): case-insensitive containment
RegexTestI(search, field) == IsSubstring(ToLower(search), ToLower(field))

Quote == "\""

FirstQuote(t) ==
    IF \E i \in 1..Len(t) : t[i] = Quote
    THEN CHOOSE i \in 1..Len(t) : t[i] = Quote /\ \A j \in 1..(i - 1) : t[j] # Quote
    ELSE 0

JsonThrow == [ok |-> FALSE, arr |-> <<>>]

RECURSIVE JsonItems(_)
JsonItems(t) ==
    IF t = <<>> \/ Head(t) # Quote THEN JsonThrow
    ELSE LET body == Tail(t)
             n == FirstQuote(body)
         IN  IF n = 0 THEN JsonThrow
             ELSE LET str == SubSeq(body, 1, n - 1)
                      after == SubSeq(body, n + 1, Len(body))
                  IN  IF after = <<>> THEN [ok |-> TRUE, arr |-> <<str>>]
                      ELSE IF Head(after) # "," THEN JsonThrow
                      ELSE LET r == JsonItems(Tail(after))
                           IN  IF r.ok THEN [ok |-> TRUE, arr |-> <<str>> \o r.arr]
                               ELSE JsonThrow

\* JSON.parse(specs) on the texts drawn here: an array of plain strings parses
\* to that array, any other text throws SyntaxError
JsonParse(s) ==
    IF Len(s) < 2 \/ s[1] # "[" \/ s[Len(s)] # "]" THEN JsonThrow
    ELSE IF Len(s) = 2 THEN [ok |-> TRUE, arr |-> <<>>]
    ELSE JsonItems(SubSeq(s, 2, Len(s) - 1))


---------------------------------------------------------------------------
(* Access control middleware (middleware/auth.js) *)

NoUser == [username |-> <<>>, role |-> "none"]

NoHeader == [kind |-> "absent", sig |-> "none", expired |-> FALSE, user |-> NoUser]

\* a header that is not "Bearer <jwt>"
MalformedHeader == [kind |-> "malformed", sig |-> "none", expired |-> FALSE, user |-> NoUser]

\* a bearer token as jwt.sign makes it: the payload, who signed it, whether its hour is over
Bearer(username, role, sig, expired) ==
    [kind |-> "bearer", sig |-> sig, expired |-> expired,
     user |-> [username |-> username, role |-> role]]

\* jwt.verify against JWT_SECRET: the signature is the server's and the token has not expired
VerifyToken(h) == h.sig = "server" /\ ~h.expired

\* authenticateToken: 401 unless the header carries a verifiable bearer token; 0 is next()
authenticateToken(h) ==
    IF h.kind # "bearer" THEN 401
    ELSE IF ~VerifyToken(h) THEN 401
    ELSE 0

\* authorizeRole(roles): 403 unless req.user.role is in the allow-list; 0 is next()
authorizeRole(roles, user) == IF user.role \in roles THEN 0 ELSE 403

AdminRolesWithUser == {"admin", "user"}

\* the allow-list of the three product write routes: authorizeRole(['admin'])
AdminRoles == {"admin"}

\* the middleware chain in front of a protected handler: the status that ends the
\* request before the handler, or 0 when the handler is reached
Gate(h, roles) ==
    IF authenticateToken(h) # 0 THEN authenticateToken(h)
    ELSE authorizeRole(roles, h.user)

GateMessage(status) ==
    IF status = 401 THEN "Unauthenticated" ELSE "Forbidden"

---------------------------------------------------------------------------
(* Catalog store (models/Product.js) *)

\* Mongoose casts a value for a Number path: NaN is a cast failure
NumberCastFails(x) == IsNaN(x)

\* Mongoose casts an id for findById*: only a 24-hex-digit text is an ObjectId
ObjectIdCastFails(id) == ~id.wf

BadId == [wf |-> FALSE, n |-> 0]
GoodId(n) == [wf |-> TRUE, n |-> n]

Lookup(store, id) == {p \in store : p.id = id.n}


---------------------------------------------------------------------------
(* Request inputs *)

T_All == <<"A", "l", "l">>
T_Gloves == <<"G", "l", "o", "v", "e", "s">>
T_Masks == <<"M", "a", "s", "k", "s">>
T_Url == <<"c", "d", "n">>
T_OldUrl == <<"o", "l", "d">>

\* multipart fields of a product request, as req.body holds them
BodyA ==
    [name |-> <<"N", "i", "t">>, description |-> <<"B", "o", "x">>,
     price |-> <<"1", "2">>, originalPrice |-> <<"1", "5", ".", "5", "0">>,
     quantity |-> <<"5">>, category |-> T_Gloves, subCategory |-> <<"E", "x">>,
     specs |-> <<"[", Quote, "L", Quote, ",", Quote, "M", Quote, "]">>,
     imageUrl |-> Undef]

BodyB ==
    [name |-> <<"N", "9", "5">>, description |-> <<"G", "o", "g", "g", "l", "e">>,
     price |-> <<"7", ".", "5">>, originalPrice |-> Undef,
     quantity |-> <<"3">>, category |-> T_Masks, subCategory |-> <<"F", "a">>,
     specs |-> Undef, imageUrl |-> T_OldUrl]

BodyBadPrice == [BodyA EXCEPT !.price = <<"a", "b", "c">>]
BodyBadQuantity == [BodyB EXCEPT !.quantity = <<"x">>]
BodyBadOriginal == [BodyA EXCEPT !.originalPrice = <<"n", "a">>]
BodyNoName == [BodyA EXCEPT !.name = Undef]
BodyBadSpecs == [BodyB EXCEPT !.specs = <<"L", ",", "M">>]

ValidBodies == {BodyA, BodyB}

\* a form whose numbers are all zero and whose specs is the empty JSON array
BodyZero ==
    [BodyA EXCEPT !.price = <<"0">>, !.originalPrice = <<"0", ".", "0">>,
                  !.quantity = <<"0">>, !.specs = <<"[", "]">>]

RoundBodies == ValidBodies \cup {BodyZero}
Bodies == ValidBodies \cup {BodyBadPrice, BodyBadQuantity, BodyBadOriginal, BodyNoName, BodyBadSpecs}

\* req.file: no image part, an image the media host accepts, an image whose upload fails
Files == {"none", "image", "rejected"}

Headers ==
    {NoHeader, MalformedHeader,
     Bearer(<<"r", "o", "o", "t">>, "admin", "server", FALSE),
     Bearer(<<"b", "o", "b">>, "user", "server", FALSE),
     Bearer(<<"r", "o", "o", "t">>, "admin", "server", TRUE),
     Bearer(<<"r", "o", "o", "t">>, "admin", "forged", FALSE)}

AdminHeader == Bearer(<<"r", "o", "o", "t">>, "admin", "server", FALSE)

IdInputs == {BadId} \cup {GoodId(n) : n \in 1..MaxProducts}

NoBody ==
    [name |-> Undef, description |-> Undef, price |-> Undef, originalPrice |-> Undef,
     quantity |-> Undef, category |-> Undef, subCategory |-> Undef, specs |-> Undef,
     imageUrl |-> Undef]

Query(page, limit, search, category) ==
    [page |-> page, limit |-> limit, search |-> search, category |-> category]

NoQuery == Query(Undef, Undef, Undef, Undef)

\* the body of a listing response, with the query it answers; pageSource is the
\* number of records that matched when the page was read
Listing(q, docs, pageSource, currentPage, totalPages, totalProducts) ==
    [q |-> q, products |-> docs, pageSource |-> pageSource, currentPage |-> currentPage,
     totalPages |-> totalPages, totalProducts |-> totalProducts]

NoListing == Listing(NoQuery, <<>>, 0, NoNum, NoNum, 0)

\* the body of a response that carries no product document
NoDoc ==
    [id |-> 0, name |-> Undef, description |-> Undef, price |-> NoNum,
     original_price |-> NoNum, quantity |-> NoNum, category |-> Undef,
     subcategory |-> Undef, image |-> Undef, specs |-> <<>>, createdAt |-> 0]

\* the last response sent by a product route, with the request it answers
Response(route, h, file, body, id, handler, status, msg) ==
    [route |-> route, header |-> h, file |-> file, body |-> body, id |-> id,
     handler |-> handler, status |-> status, msg |-> msg, listing |-> NoListing,
     doc |-> NoDoc]

\* res.status(..).json(product)
DocResponse(route, h, file, body, id, status, msg, doc) ==
    [Response(route, h, file, body, id, TRUE, status, msg) EXCEPT !.doc = doc]

\* History of the admin's catalog writes, recorded where the round trip is
\* followed (SpecRound): the form a product was created from, and whether it is
\* still as created (no update or delete of its id has succeeded since).
NoMade == [body |-> NoBody, intact |-> FALSE]
Made(body) == [body |-> body, intact |-> TRUE]

NoResponse == Response("none", NoHeader, "none", NoBody, BadId, FALSE, 0, "")

---------------------------------------------------------------------------
(* Product write handlers *)

\* the fields both write handlers compute from req.body
ParsedPrice(body) == ParseFloat(body.price)
ParsedOriginalDropped(body) == NoNum

ParsedOriginal(body) ==
    IF Truthy(body.originalPrice) THEN ParseFloat(body.originalPrice) ELSE NoNum
ParsedQuantity(body) == ParseInt(body.quantity)
ParsedSpecs(body) ==
    IF Truthy(body.specs) THEN JsonParse(body.specs) ELSE [ok |-> TRUE, arr |-> <<>>]

AnyNumberCastFails(body) ==
    \/ NumberCastFails(ParsedPrice(body))
    \/ NumberCastFails(ParsedOriginal(body))
    \/ NumberCastFails(ParsedQuantity(body))

MissingRequired(body) ==
    \/ ~Truthy(body.name) \/ ~Truthy(body.description) \/ ~Truthy(body.price)
    \/ ~Truthy(body.quantity) \/ ~Truthy(body.category) \/ ~Truthy(body.subCategory)

\* POST /api/products, the handler after the middleware: status and message
CreateOutcome(file, body) ==
    IF file = "none" THEN [status |-> 400, msg |-> "No image file uploaded"]
    ELSE IF file = "rejected" THEN [status |-> 500, msg |-> "Server error"]
    ELSE IF MissingRequired(body)
    THEN [status |-> 400, msg |-> "Missing required product fields"]
    ELSE IF ~ParsedSpecs(body).ok THEN [status |-> 500, msg |-> "Server error"]
    ELSE IF AnyNumberCastFails(body) THEN [status |-> 500, msg |-> "Server error"]
    ELSE [status |-> 201, msg |-> "created"]

NewProduct(body, id) ==
    [id |-> id, name |-> body.name, description |-> body.description,
     price |-> ParsedPrice(body), original_price |-> ParsedOriginal(body),
     quantity |-> ParsedQuantity(body), category |-> body.category,
     subcategory |-> body.subCategory, image |-> T_Url,
     specs |-> ParsedSpecs(body).arr, createdAt |-> id]

CreateHandler(h, file, body) ==
    LET gate == Gate(h, AdminRoles)
        out == CreateOutcome(file, body)
    IN  /\ IF gate # 0
           THEN /\ resp' = Response("POST", h, file, body, BadId, FALSE, gate, GateMessage(gate))
                /\ UNCHANGED <<products, nextId>>
           ELSE IF out.status # 201
           THEN /\ resp' = Response("POST", h, file, body, BadId, TRUE, out.status, out.msg)
                /\ UNCHANGED <<products, nextId>>
           ELSE /\ nextId <= MaxProducts
                /\ products' = products \cup {NewProduct(body, nextId)}
                /\ nextId' = nextId + 1
                /\ resp' = DocResponse("POST", h, file, body, GoodId(nextId), 201, out.msg,
                                       NewProduct(body, nextId))
        /\ UNCHANGED <<users, nextUserId, reg, authResp, list>>

CreateProduct(h, file, body) ==
    /\ CreateHandler(h, file, body)
    /\ UNCHANGED made

\* the admin's create, with the history of the created id
CreateTracked(body) ==
    /\ CreateHandler(AdminHeader, "image", body)
    /\ made' = IF resp'.status = 201 THEN [made EXCEPT ![resp'.id.n] = Made(body)] ELSE made


\* the CastError branch of the by-id handlers' catch blocks
CastErrorAnswer == [status |-> 400, msg |-> "Invalid product ID format"]
NotFoundAnswer == [status |-> 404, msg |-> "Product not found"]
ServerErrorAnswer == [status |-> 500, msg |-> "Server error"]

\* PUT /api/products/:id, the handler after the middleware: status and message.
\* findByIdAndUpdate casts the id and the update's Number paths; either failure is
\* an error named CastError.
UpdateOutcome(store, file, body, id) ==
    IF file = "rejected" THEN ServerErrorAnswer
    ELSE IF ~ParsedSpecs(body).ok THEN ServerErrorAnswer
    ELSE IF ObjectIdCastFails(id) \/ AnyNumberCastFails(body) THEN CastErrorAnswer
    ELSE IF Lookup(store, id) = {} THEN NotFoundAnswer
    ELSE [status |-> 200, msg |-> "updated"]

\* a key of the update whose value is undefined is not written
Upd(old, new) == IF new = Undef THEN old ELSE new

UpdatedProduct(old, file, body) ==
    [old EXCEPT
       !.name = Upd(old.name, body.name),
       !.description = Upd(old.description, body.description),
       !.price = ParsedPrice(body),
       !.original_price =
           IF ParsedOriginal(body) = NoNum THEN old.original_price ELSE ParsedOriginal(body),
       !.quantity = ParsedQuantity(body),
       !.category = Upd(old.category, body.category),
       !.subcategory = Upd(old.subcategory, body.subCategory),
       !.specs = ParsedSpecs(body).arr,
       !.image = IF file = "image" THEN T_Url ELSE Upd(old.image, body.imageUrl)]

UpdateHandler(h, file, body, id) ==
    LET gate == Gate(h, AdminRoles)
        out == UpdateOutcome(products, file, body, id)
    IN  /\ IF gate # 0
           THEN /\ resp' = Response("PUT", h, file, body, id, FALSE, gate, GateMessage(gate))
                /\ UNCHANGED products
           ELSE IF out.status # 200
           THEN /\ resp' = Response("PUT", h, file, body, id, TRUE, out.status, out.msg)
                /\ UNCHANGED products
           ELSE /\ products' =
                       {IF p.id = id.n THEN UpdatedProduct(p, file, body) ELSE p : p \in products}
                /\ resp' = DocResponse("PUT", h, file, body, id, 200, out.msg,
                                       CHOOSE p \in products' : p.id = id.n)
        /\ UNCHANGED <<users, nextUserId, reg, authResp, nextId, list>>

UpdateProduct(h, file, body, id) ==
    /\ UpdateHandler(h, file, body, id)
    /\ UNCHANGED made

\* the admin's update, with the history of the updated id
UpdateTracked(file, body, id) ==
    /\ UpdateHandler(AdminHeader, file, body, id)
    /\ made' = IF resp'.status = 200 THEN [made EXCEPT ![id.n] = NoMade] ELSE made

\* findById / findByIdAndDelete: CastError for a malformed id, null for no match
ByIdOutcome(store, id, okMsg) ==
    IF ObjectIdCastFails(id) THEN CastErrorAnswer
    ELSE IF Lookup(store, id) = {} THEN NotFoundAnswer
    ELSE [status |-> 200, msg |-> okMsg]

DeleteHandler(h, id) ==
    LET gate == Gate(h, AdminRoles)
        out == ByIdOutcome(products, id, "Product deleted successfully")
    IN  /\ IF gate # 0
           THEN /\ resp' = Response("DELETE", h, "none", NoBody, id, FALSE, gate, GateMessage(gate))
                /\ UNCHANGED products
           ELSE /\ resp' = Response("DELETE", h, "none", NoBody, id, TRUE, out.status, out.msg)
                /\ products' =
                       IF out.status = 200 THEN products \ Lookup(products, id) ELSE products
        /\ UNCHANGED <<users, nextUserId, reg, authResp, nextId, list>>

DeleteProduct(h, id) ==
    /\ DeleteHandler(h, id)
    /\ UNCHANGED made

\* the admin's delete, with the history of the deleted id
DeleteTracked(id) ==
    /\ DeleteHandler(AdminHeader, id)
    /\ made' = IF resp'.status = 200 THEN [made EXCEPT ![id.n] = NoMade] ELSE made

\* GET /api/products/:id carries no middleware
GetProduct(id) ==
    LET out == ByIdOutcome(products, id, "product")
    IN  /\ resp' = DocResponse("GET", NoHeader, "none", NoBody, id, out.status, out.msg,
                               IF out.status = 200
                               THEN CHOOSE p \in Lookup(products, id) : TRUE
                               ELSE NoDoc)
        /\ UNCHANGED <<users, nextUserId, reg, authResp, products, nextId, list, made>>

---------------------------------------------------------------------------
(* Product listing: GET /api/products *)

DefaultLimit == 9999

\* JS arithmetic on the values parseInt returns
Minus1(x) == IF x.k = "num" THEN Num(x.v - 1) ELSE NaN
Times(x, y) == IF x.k = "num" /\ y.k = "num" THEN Num(x.v * y.v) ELSE NaN

CeilDivFloor(n, y) ==
    IF y.k # "num" THEN NaN
    ELSE IF y.v = 0 THEN (IF n = 0 THEN NaN ELSE Infinity)
    ELSE Num(n \div y.v)

\* Math.ceil(n / y) for a count n >= 0 and a limit y that is NaN or >= 0
CeilDiv(n, y) ==
    IF y.k # "num" THEN NaN
    ELSE IF y.v = 0 THEN (IF n = 0 THEN NaN ELSE Infinity)
    ELSE Num((n + y.v - 1) \div y.v)

\* const { page, limit = 9999, search, category } = req.query
PageNumber(q) == ParseInt(q.page)
LimitNumber(q) == IF q.limit = Undef THEN Num(DefaultLimit) ELSE ParseInt(q.limit)
SkipNumberPageTimesLimit(q) == Times(PageNumber(q), LimitNumber(q))

SkipNumber(q) == Times(Minus1(PageNumber(q)), LimitNumber(q))

\* query.$or: the search RegExp on name, description, category, subcategory, specs
SearchMatches(p, search) ==
    \/ RegexTestI(search, p.name)
    \/ RegexTestI(search, p.description)
    \/ RegexTestI(search, p.category)
    \/ RegexTestI(search, p.subcategory)
    \/ \E i \in 1..Len(p.specs) : RegexTestI(search, p.specs[i])

HasCategoryFilterNoSentinel(q) == Truthy(q.category)

\* query.category is set when category is truthy and not 'All'
HasCategoryFilter(q) == Truthy(q.category) /\ q.category # T_All

Matches(p, q) ==
    /\ Truthy(q.search) => SearchMatches(p, q.search)
    /\ HasCategoryFilter(q) => p.category = q.category

Matching(store, q) == {p \in store : Matches(p, q)}

\* .sort({ createdAt: -1 }): newest first
RECURSIVE SortDesc(_)
SortDesc(S) ==
    IF S = {} THEN <<>>
    ELSE LET newest == CHOOSE p \in S : \A o \in S : o.createdAt <= p.createdAt
         IN  <<newest>> \o SortDesc(S \ {newest})

Skip(docs, n) == SubSeq(docs, n + 1, Len(docs))

\* a limit of 0 is no limit
Limit(docs, n) == IF n = 0 \/ n >= Len(docs) THEN docs ELSE SubSeq(docs, 1, n)

\* How the store takes a NaN skip or limit is not fixed by the handler: it either
\* refuses the query or reads NaN as 0.
NaNModes == {"refuse", "zero"}

StoreNumber(x, nanMode) ==
    IF x.k = "num" THEN [ok |-> x.v >= 0, n |-> x.v]
    ELSE [ok |-> nanMode = "zero", n |-> 0]

\* Product.find(query).skip(skip).limit(limit).sort({createdAt: -1})
Find(store, q, nanMode) ==
    LET sk == StoreNumber(SkipNumber(q), nanMode)
        lm == StoreNumber(LimitNumber(q), nanMode)
    IN  IF ~sk.ok \/ ~lm.ok THEN [ok |-> FALSE, docs |-> <<>>]
        ELSE [ok |-> TRUE, docs |-> Limit(Skip(SortDesc(Matching(store, q)), sk.n), lm.n)]

IdleList ==
    [pc |-> "idle", q |-> NoQuery, products |-> <<>>, pageSource |-> 0]

ListResponse(status, msg, listing) ==
    [Response("LIST", NoHeader, "none", NoBody, BadId, TRUE, status, msg)
        EXCEPT !.listing = listing]

\* the first await of the handler: the page is read; a refused query is answered 500
ListFind(q, nanMode) ==
    \E f \in {Find(products, q, nanMode)} :
        /\ list.pc = "idle"
        /\ IF f.ok
           THEN /\ list' = [pc |-> "found", q |-> q, products |-> f.docs,
                            pageSource |-> Cardinality(Matching(products, q))]
                /\ UNCHANGED resp
           ELSE /\ resp' = ListResponse(500, "Server error",
                                        Listing(q, <<>>, 0, NoNum, NoNum, 0))
                /\ UNCHANGED list
        /\ UNCHANGED <<users, nextUserId, reg, authResp, products, nextId, made>>

\* the second await: countDocuments, then the 200 response
ListCount ==
    \E total \in {Cardinality(Matching(products, list.q))} :
        /\ list.pc = "found"
        /\ resp' = ListResponse(200, "listing",
                       Listing(list.q, list.products, list.pageSource, PageNumber(list.q),
                               CeilDiv(total, LimitNumber(list.q)), total))
        /\ list' = IdleList
        /\ UNCHANGED <<users, nextUserId, reg, authResp, products, nextId, made>>

PassesNaN(q) == IsNaN(SkipNumber(q)) \/ IsNaN(LimitNumber(q))

\* the store's choice exists only for a query that passes it a NaN
NaNModesFor(q) == IF PassesNaN(q) THEN NaNModes ELSE {"zero"}

Pages == {Undef, <<"1">>, <<"2">>, <<"x">>}
Limits == {Undef, <<"1">>, <<"x">>}
Searches == {Undef, <<"O">>}
Categories == {Undef, <<>>, T_All, T_Gloves}

\* every page with every limit and no filter, and the first page of one product
\* with every search and category
Queries ==
    {Query(pg, lm, Undef, Undef) : pg \in Pages, lm \in Limits}
        \cup {Query(<<"1">>, <<"1">>, sr, ct) : sr \in Searches, ct \in Categories}

---------------------------------------------------------------------------
(* Registration and login: POST /api/register, POST /api/login *)

Procs == 1..NumProcs

T_Alice == <<"a", "l">>
T_Bob == <<"b", "o">>
T_Pw1 == <<"p", "1">>
T_Pw2 == <<"p", "2">>

\* bcrypt.hash(password, 10): the salt is left out, compare's answer does not depend on it
Hash(pw) == <<"$2a$10$">> \o pw

\* bcrypt.compare(password, user.password)
Compare(pw, hash) == hash = Hash(pw)

\* User.findOne({ username })
FindUser(store, username) == {u \in store : u.username = username}

\* the unique index on username refuses a second record of a username
DuplicateKey(store, username) == FindUser(store, username) # {}

IdleProc ==
    [pc |-> "idle", username |-> Undef, password |-> Undef, role |-> "",
     hash |-> <<>>]

\* the last response of the two routes, with the request it answers; found is
\* what findOne returned for the request
AuthResponse(route, username, password, found, status, msg, token) ==
    [route |-> route, username |-> username, password |-> password, found |-> found,
     status |-> status, msg |-> msg, token |-> token]

NoAuthResponse == AuthResponse("none", Undef, Undef, FALSE, 0, "", NoHeader)

\* role: role || 'user'; a role is kept whole, "" standing for an absent one
RoleOrUser(role) == IF role = "" THEN "user" ELSE role

RegisterLookupNothing(store, username) == {}

\* const existingUser = await User.findOne({ username })
RegisterLookup(store, username) == FindUser(store, username)

\* validation and the findOne lookup of a registration
RegisterStart(p, username, password, role) ==
    /\ reg[p].pc = "idle"
    /\ IF ~Truthy(username) \/ ~Truthy(password)
       THEN /\ authResp' = AuthResponse("register", username, password, FALSE, 400,
                                        "Username and password are required", NoHeader)
            /\ UNCHANGED reg
       ELSE IF RegisterLookup(users, username) # {}
       THEN /\ authResp' = AuthResponse("register", username, password, TRUE, 409,
                                        "Username already exists", NoHeader)
            /\ UNCHANGED reg
       ELSE /\ reg' = [reg EXCEPT ![p] = [pc |-> "hashing", username |-> username,
                                          password |-> password, role |-> role,
                                          hash |-> <<>>]]
            /\ UNCHANGED authResp
    /\ UNCHANGED <<users, nextUserId, products, nextId, resp, list, made>>

\* await bcrypt.hash(password, 10)
RegisterHash(p) ==
    /\ reg[p].pc = "hashing"
    /\ reg' = [reg EXCEPT ![p].pc = "saving", ![p].hash = Hash(reg[p].password)]
    /\ UNCHANGED <<users, nextUserId, authResp, products, nextId, resp, list, made>>

SaveAnswerAlwaysCreated(duplicate) ==
    [status |-> 201, msg |-> "User registered successfully"]

\* the response after await newUser.save(): 201, or 500 from the catch block
SaveAnswer(duplicate) ==
    IF duplicate THEN [status |-> 500, msg |-> "Server error"]
    ELSE [status |-> 201, msg |-> "User registered successfully"]

\* await newUser.save() and the response
RegisterSave(p) ==
    LET duplicate == DuplicateKey(users, reg[p].username)
        answer == SaveAnswer(duplicate)
    IN  /\ reg[p].pc = "saving"
        /\ users' =
              IF duplicate THEN users
              ELSE users \cup {[id |-> nextUserId, username |-> reg[p].username,
                                password |-> reg[p].hash, role |-> RoleOrUser(reg[p].role)]}
        /\ nextUserId' = IF duplicate THEN nextUserId ELSE nextUserId + 1
        /\ authResp' = AuthResponse("register", reg[p].username, reg[p].password, FALSE,
                                    answer.status, answer.msg, NoHeader)
        /\ reg' = [reg EXCEPT ![p] = IdleProc]
        /\ UNCHANGED <<products, nextId, resp, list, made>>

NoSuchUserAnswerRevealing == [status |-> 404, msg |-> "User not found"]

\* the response when findOne returns null
NoSuchUserAnswer == [status |-> 401, msg |-> "Invalid credentials"]

\* the response when bcrypt.compare returns false
WrongPasswordAnswer == [status |-> 401, msg |-> "Invalid credentials"]

\* jwt.sign({ id, username, role }, JWT_SECRET, { expiresIn: '1h' })
SignToken(user) == Bearer(user.username, user.role, "server", FALSE)

\* POST /api/login: the store is read once, so the handler is one step
Login(username, password) ==
    LET found == FindUser(users, username)
        user == CHOOSE u \in found : TRUE
    IN  /\ authResp' =
              IF ~Truthy(username) \/ ~Truthy(password)
              THEN AuthResponse("login", username, password, FALSE, 400,
                                "Username and password are required", NoHeader)
              ELSE IF found = {}
              THEN AuthResponse("login", username, password, FALSE,
                                NoSuchUserAnswer.status, NoSuchUserAnswer.msg, NoHeader)
              ELSE IF ~Compare(password, user.password)
              THEN AuthResponse("login", username, password, TRUE,
                                WrongPasswordAnswer.status, WrongPasswordAnswer.msg, NoHeader)
              ELSE AuthResponse("login", username, password, TRUE, 200,
                                "Login successful", SignToken(user))
        /\ UNCHANGED <<users, nextUserId, reg, products, nextId, resp, list, made>>

RegisterRequests ==
    {<<T_Alice, T_Pw1, "">>, <<T_Bob, T_Pw1, "admin">>,
     <<Undef, T_Pw1, "">>, <<T_Alice, <<>>, "">>}

LoginRequests ==
    {<<T_Alice, T_Pw1>>, <<T_Alice, T_Pw2>>, <<T_Bob, T_Pw1>>, <<<<>>, T_Pw1>>}

---------------------------------------------------------------------------
(* Initial state: an empty database, nothing in flight *)

Init ==
    /\ users = {}
    /\ nextUserId = 1
    /\ reg = [p \in Procs |-> IdleProc]
    /\ authResp = NoAuthResponse
    /\ products = {}
    /\ nextId = 1
    /\ resp = NoResponse
    /\ list = IdleList
    /\ made = [i \in 1..MaxProducts |-> NoMade]

\* The requests drawn: every header with one representative form (the middleware
\* answers before any form field is read), the admin header with every form and an
\* image, and the admin header with every kind of image part.
WriteRequests ==
    {<<h, "image", BodyA>> : h \in Headers}
        \cup {<<AdminHeader, "image", body>> : body \in Bodies}
        \cup {<<AdminHeader, file, BodyB>> : file \in Files}

WriteNext ==
    \/ \E r \in WriteRequests : CreateProduct(r[1], r[2], r[3])
    \/ \E r \in WriteRequests, id \in IdInputs : UpdateProduct(r[1], r[2], r[3], id)
    \/ \E h \in Headers, id \in IdInputs : DeleteProduct(h, id)
    \/ \E id \in IdInputs : GetProduct(id)

AuthNext ==
    \/ \E p \in Procs, r \in RegisterRequests : RegisterStart(p, r[1], r[2], r[3])
    \/ \E p \in Procs : RegisterHash(p)
    \/ \E p \in Procs : RegisterSave(p)
    \/ \E r \in LoginRequests : Login(r[1], r[2])

SpecAuth == Init /\ [][AuthNext]_vars

SpecWrite == Init /\ [][WriteNext]_vars

\* listing, interleaved with the admin's successful catalog writes
ListNext ==
    \/ \E q \in Queries : \E nanMode \in NaNModesFor(q) : ListFind(q, nanMode)
    \/ ListCount
    \/ \E body \in ValidBodies : CreateProduct(AdminHeader, "image", body)
    \/ \E n \in 1..MaxProducts : DeleteProduct(AdminHeader, GoodId(n))

SpecList == Init /\ [][ListNext]_vars

\* The admin's catalog writes with every valid form, and fetches by id
RoundNext ==
    \/ \E body \in RoundBodies : CreateTracked(body)
    \/ \E file \in {"none", "image"}, n \in 1..MaxProducts : UpdateTracked(file, BodyB, GoodId(n))
    \/ \E n \in 1..MaxProducts : DeleteTracked(GoodId(n))
    \/ \E id \in IdInputs : GetProduct(id)

SpecRound == Init /\ [][RoundNext]_vars


---------------------------------------------------------------------------
(* Properties of the write routes and the by-id routes (SpecWrite) *)

WriteRoutes == {"POST", "PUT", "DELETE"}
ByIdRoutes == {"GET", "PUT", "DELETE"}

\* the credential is missing, malformed, expired or badly signed
BadCredential(h) == h.kind # "bearer" \/ h.expired \/ h.sig # "server"

C1_Step ==
    /\ (resp'.route \in WriteRoutes /\ BadCredential(resp'.header))
          => (resp'.status = 401 /\ ~resp'.handler /\ products' = products)
    /\ (resp'.route \in WriteRoutes /\ ~BadCredential(resp'.header)
            /\ resp'.header.user.role # "admin")
          => (resp'.status = 403 /\ ~resp'.handler /\ products' = products)
    /\ products' # products
          => (/\ resp'.route \in WriteRoutes
              /\ ~BadCredential(resp'.header)
              /\ resp'.header.user.role = "admin")

\* C1: on POST, PUT and DELETE of products a missing, malformed, expired or badly
\* signed token is answered 401 and a valid non-admin token 403, in both cases
\* before the handler and with the catalog unchanged; every step that changes the
\* catalog answers a request carrying a valid admin token.
C1_OnlyAdminChangesCatalog == [][C1_Step]_vars

\* an admin has created a product and a valid non-admin token was then refused
C1_Witness ==
    /\ resp.route = "DELETE" /\ resp.status = 403 /\ ~resp.handler
    /\ resp.header.user.role = "user"
    /\ products # {}

C8_Step ==
    (resp'.route \in ByIdRoutes /\ resp'.handler /\ resp'.file # "rejected"
        /\ ParsedSpecs(resp'.body).ok)
        => /\ ~resp'.id.wf => (resp'.status = 400 /\ products' = products)
           /\ (resp'.id.wf /\ Lookup(products, resp'.id) = {})
                 => (resp'.status = 404 /\ products' = products)
           /\ (resp'.status = 400 /\ resp'.msg = "Invalid product ID format")
                 => ~resp'.id.wf

\* C8: on GET, PUT and DELETE /api/products/:id (a failed media upload and a specs
\* text that is not JSON aside) a malformed id is answered 400, a well-formed id
\* with no record 404, both leaving the catalog unchanged, and 'Invalid product ID
\* format' is sent only for a malformed id.
C8_IdErrorsDistinguished == [][C8_Step]_vars

ParseFails(body) ==
    \/ IsNaN(ParseFloat(body.price))
    \/ (Truthy(body.originalPrice) /\ IsNaN(ParseFloat(body.originalPrice)))
    \/ IsNaN(ParseInt(body.quantity))

\* C9: on product create and update a price, originalPrice or quantity that does
\* not parse as a number is answered 400, and no stored product holds a NaN.
C9_ParseFailureIsBadRequest ==
    /\ (resp.route \in {"POST", "PUT"} /\ resp.handler /\ resp.file = "image"
            /\ ~MissingRequired(resp.body) /\ ParseFails(resp.body))
          => resp.status = 400
    /\ \A p \in products :
          ~IsNaN(p.price) /\ ~IsNaN(p.original_price) /\ ~IsNaN(p.quantity)


---------------------------------------------------------------------------
(* Properties of the listing route (SpecList) *)

\* pages and limits the paging property is evaluated for in every state
MaxPage == 3
MaxLimit == 2

IsDigits(s) == s # Undef /\ s # <<>> /\ \A i \in 1..Len(s) : s[i] \in Digits

\* a query parameter that is a decimal number >= 1
NumericFrom1(s) == IsDigits(s) /\ DigitsValue(s, 0) >= 1

NumText(n) == <<CHOOSE c \in Digits : DigitVal(c) = n>>

\* position of d among S in descending order of createdAt
Rank(S, d) == 1 + Cardinality({o \in S : o.createdAt > d.createdAt})

\* docs are exactly the members of S at positions (p-1)*l+1 .. p*l, in that order
IsPageOf(docs, S, p, l) ==
    /\ \A i \in 1..Len(docs) : docs[i] \in S /\ Rank(S, docs[i]) = (p - 1) * l + i
    /\ Len(docs) = Cardinality({d \in S : Rank(S, d) \in ((p - 1) * l + 1)..(p * l)})

SeqRange(docs) == {docs[i] : i \in 1..Len(docs)}

ConsecutivePages(store, p, l, ct) ==
    LET M == Matching(store, Query(NumText(p), NumText(l), Undef, ct))
        a == Find(store, Query(NumText(p), NumText(l), Undef, ct), "zero")
        b == Find(store, Query(NumText(p + 1), NumText(l), Undef, ct), "zero")
    IN  /\ a.ok /\ b.ok
        /\ IsPageOf(a.docs, M, p, l)
        /\ IsPageOf(b.docs, M, p + 1, l)
        /\ SeqRange(a.docs) \cap SeqRange(b.docs) = {}

C5_Step ==
    /\ (list.pc = "idle" /\ list'.pc = "found"
            /\ NumericFrom1(list'.q.page) /\ NumericFrom1(list'.q.limit))
          => IsPageOf(list'.products, Matching(products, list'.q),
                      DigitsValue(list'.q.page, 0), DigitsValue(list'.q.limit, 0))
    /\ (list.pc = "found" /\ list'.pc = "idle")
          => resp'.listing.products = list.products
    /\ \A p \in 1..MaxPage, l \in 1..MaxLimit, ct \in {Undef, T_Gloves} :
          ConsecutivePages(products, p, l, ct)

\* C5: with numeric page >= 1 and limit >= 1, page p is exactly the matching
\* products at positions (p-1)*limit+1 .. p*limit in descending createdAt order,
\* so over one catalog pages p and p+1 are disjoint and consecutive.
C5_PagesAreConsecutiveSlices == [][C5_Step]_vars

\* the second page of one, read from a catalog of two products
C5_Witness ==
    /\ list.pc = "found" /\ list.q.page = <<"2">> /\ list.q.limit = <<"1">>
    /\ Len(list.products) = 1
    /\ Cardinality(products) = 2
    /\ \E p \in products : p.createdAt > list.products[1].createdAt

\* ceil(n / limit) as a number: the least k with k * limit >= n
LeastMultiple(n, l) == CHOOSE k \in 0..n : k * l >= n /\ \A j \in 0..(k - 1) : j * l < n

ExpectedTotalPages(n, limitText) ==
    IF limitText = Undef THEN Num(LeastMultiple(n, DefaultLimit))
    ELSE IF ~NumericFrom1(limitText) THEN NaN
    ELSE Num(LeastMultiple(n, DigitsValue(limitText, 0)))

\* C6 as claimed: every 200 listing has totalPages = ceil(totalProducts / limit)
\* and totalProducts equal to the number of records that matched when the page
\* was read, whatever interleaves between the two reads.
C6_CountIsOfThePageSource ==
    (resp.route = "LIST" /\ resp.status = 200)
        => /\ resp.listing.totalPages =
                  ExpectedTotalPages(resp.listing.totalProducts, resp.listing.q.limit)
           /\ resp.listing.totalProducts = resp.listing.pageSource

C6_Step ==
    (list.pc = "found" /\ list'.pc = "idle")
        => /\ resp'.route = "LIST" /\ resp'.status = 200
           /\ resp'.listing.totalProducts =
                  Cardinality({p \in products : Matches(p, list.q)})
           /\ resp'.listing.totalPages =
                  ExpectedTotalPages(resp'.listing.totalProducts, list.q.limit)

\* C6 amended: every 200 listing has totalPages = ceil(totalProducts / limit) and
\* totalProducts equal to the number of records matching the filter when
\* countDocuments reads the catalog.
C6_CountIsOfTheCountRead == [][C6_Step]_vars

\* a listing whose count differs from the set its page was read from
C6_Witness ==
    /\ resp.route = "LIST" /\ resp.status = 200
    /\ resp.listing.totalProducts # resp.listing.pageSource
    /\ resp.listing.totalPages.k = "num"

AllHaveCategory(docs, ct) == \A i \in 1..Len(docs) : docs[i].category = ct

\* C7 as claimed: a category parameter other than "All" is an exact-match filter
\* on the returned products.
C7_AnyCategoryFilters ==
    (resp.route = "LIST" /\ resp.status = 200
        /\ resp.listing.q.category # Undef /\ resp.listing.q.category # T_All)
        => AllHaveCategory(resp.listing.products, resp.listing.q.category)

NoCategory(q) == [q EXCEPT !.category = Undef]

C7_Step ==
    /\ (list.pc = "idle" /\ list'.pc = "found")
          => IF list'.q.category \notin {Undef, <<>>, T_All}
             THEN AllHaveCategory(list'.products, list'.q.category)
             ELSE list'.products = Find(products, NoCategory(list'.q), "zero").docs
    /\ (resp'.route = "LIST" /\ resp'.status = 200
            /\ resp'.listing.q.category \notin {Undef, <<>>, T_All})
          => AllHaveCategory(resp'.listing.products, resp'.listing.q.category)

\* C7 amended: a non-empty category parameter other than "All" is an exact-match
\* filter on the returned products, also next to a search; with category absent,
\* empty or "All" the page is that of the same query without a category.
C7_NonEmptyCategoryFilters == [][C7_Step]_vars

\* a Gloves listing with a search that a newer Masks product also matches
C7_Witness ==
    /\ resp.route = "LIST" /\ resp.status = 200
    /\ resp.listing.q.category = T_Gloves /\ resp.listing.q.search = <<"O">>
    /\ Len(resp.listing.products) = 1
    /\ \E p \in products :
          /\ p.category = T_Masks /\ SearchMatches(p, <<"O">>)
          /\ p.createdAt > resp.listing.products[1].createdAt

NotNumeric(s) == s # Undef /\ ~IsDigits(s)

\* C10: a listing without page is page 1 (currentPage 1), a non-numeric page or
\* limit is answered 400, and no NaN is passed to the store as skip or limit or
\* returned as currentPage or totalPages.
C10_PageDefaultsAndRejects ==
    /\ resp.route = "LIST"
          => /\ (NotNumeric(resp.listing.q.page) \/ NotNumeric(resp.listing.q.limit))
                   => resp.status = 400
             /\ (resp.listing.q.page = Undef /\ ~NotNumeric(resp.listing.q.limit))
                   => (resp.status = 200 /\ resp.listing.currentPage = Num(1))
             /\ ~IsNaN(resp.listing.currentPage) /\ ~IsNaN(resp.listing.totalPages)
    /\ list.pc = "found" => ~PassesNaN(list.q)


---------------------------------------------------------------------------
(* Properties of registration and login (SpecAuth) *)

Present(store, username) == \E u \in store : u.username = username

C2_Step ==
    /\ \A p \in Procs :
          (reg[p].pc = "idle" /\ reg'[p].pc = "hashing")
              => ~Present(users, reg'[p].username)
    /\ (authResp' # authResp /\ reg' = reg /\ authResp'.route = "register"
            /\ Truthy(authResp'.username) /\ Truthy(authResp'.password)
            /\ Present(users, authResp'.username))
          => (authResp'.status = 409 /\ authResp'.found /\ users' = users)
    /\ (authResp'.route = "register" /\ authResp'.found)
          => (authResp'.status = 409 /\ users' = users)

\* C2: a registration with non-empty username and password whose username is in
\* the credential store when the request is looked up is answered 409, adds no
\* record and never goes on to hash or save.
C2_DuplicateIsConflict == [][C2_Step]_vars

\* the repeated registration of a stored username, answered 409
C2_Witness ==
    /\ authResp.route = "register" /\ authResp.status = 409
    /\ authResp.username = T_Alice
    /\ Cardinality(FindUser(users, T_Alice)) = 1

UniqueUsernames(store) ==
    \A u1 \in store, u2 \in store : u1.username = u2.username => u1 = u2

C3_Step ==
    /\ UniqueUsernames(users')
    /\ \A p \in Procs :
          (reg[p].pc = "saving" /\ reg'[p].pc = "idle" /\ authResp'.status = 201)
              => /\ ~Present(users, reg[p].username)
                 /\ Present(users', reg[p].username)

\* C3: under every interleaving of registrations no two user records share a
\* username, and a registration is answered 201 only by the step that stores the
\* first record of its username, so at most one of several concurrent
\* registrations of a new username is answered 201.
C3_UsernamesUnique == UniqueUsernames(users) /\ [][C3_Step]_vars

\* two registrations of one new username raced: one stored, the other got 500
C3_Witness ==
    /\ authResp.route = "register" /\ authResp.status = 500
    /\ Present(users, authResp.username)
    /\ \A p \in Procs : reg[p].pc = "idle"

\* the stored record of the username has this password
CorrectPassword(store, username, password) ==
    \E u \in store : u.username = username /\ u.password = Hash(password)

\* C4: a login with non-empty username and password that names no stored user, or
\* a stored user with another password, is answered 401 with the one message
\* 'Invalid credentials' either way and with no token.
C4_LoginFailuresAlike ==
    (authResp.route = "login" /\ Truthy(authResp.username) /\ Truthy(authResp.password)
        /\ ~CorrectPassword(users, authResp.username, authResp.password))
        => /\ authResp.status = 401
           /\ authResp.msg = "Invalid credentials"
           /\ authResp.token = NoHeader

\* a wrong password for a stored username, answered like an unknown username
C4_Witness ==
    /\ authResp.route = "login" /\ authResp.status = 401 /\ authResp.found
    /\ authResp.username = T_Alice /\ authResp.password = T_Pw2
    /\ Present(users, T_Alice)

---------------------------------------------------------------------------
(* Round trip of a product through create and fetch (SpecRound) *)

\* a decimal numeral: digits, optionally followed by "." and digits
DotAt(s) == CHOOSE i \in 1..Len(s) : s[i] = "."

IsDecimalText(s) ==
    \/ IsDigits(s)
    \/ /\ \E i \in 1..Len(s) : s[i] = "."
       /\ IsDigits(SubSeq(s, 1, DotAt(s) - 1))
       /\ IsDigits(SubSeq(s, DotAt(s) + 1, Len(s)))

\* the number a decimal numeral denotes
DecimalValue(s) ==
    IF IsDigits(s) THEN Num(DigitsValue(s, 0))
    ELSE Dec(DigitsValue(SubSeq(s, 1, DotAt(s) - 1), 0),
             TrimZeros(SubSeq(s, DotAt(s) + 1, Len(s))))

\* the JSON text of a sequence of plain strings
RECURSIVE JsonJoin(_)
JsonJoin(arr) ==
    IF arr = <<>> THEN <<>>
    ELSE <<Quote>> \o Head(arr) \o <<Quote>>
           \o (IF Len(arr) > 1 THEN <<",">> ELSE <<>>) \o JsonJoin(Tail(arr))

JsonText(arr) == <<"[">> \o JsonJoin(arr) \o <<"]">>

SpecItems == {<<"L">>, <<"M">>}
SpecSequences == UNION {[1..n -> SpecItems] : n \in 0..2}

IsSpecsText(s) == \E arr \in SpecSequences : JsonText(arr) = s
SpecsOf(s) == CHOOSE arr \in SpecSequences : JsonText(arr) = s

NonEmptyText(s) == s # Undef /\ s # <<>>

\* the form carries valid fields: the required texts, decimal price, whole-number
\* quantity, and, when given, a decimal original price and a JSON array of specs
ValidFields(body) ==
    /\ NonEmptyText(body.name) /\ NonEmptyText(body.description)
    /\ NonEmptyText(body.category) /\ NonEmptyText(body.subCategory)
    /\ body.price # Undef /\ IsDecimalText(body.price)
    /\ body.quantity # Undef /\ IsDigits(body.quantity)
    /\ (body.originalPrice # Undef => IsDecimalText(body.originalPrice))
    /\ (body.specs # Undef => IsSpecsText(body.specs))

\* the record's fields equal the form's inputs, numbers parsed, specs a sequence
FieldsEqualInputs(doc, body) ==
    /\ doc.name = body.name
    /\ doc.description = body.description
    /\ doc.price = DecimalValue(body.price)
    /\ doc.original_price =
           (IF body.originalPrice = Undef THEN NoNum ELSE DecimalValue(body.originalPrice))
    /\ doc.quantity = Num(DigitsValue(body.quantity, 0))
    /\ doc.category = body.category
    /\ doc.subcategory = body.subCategory
    /\ doc.specs = (IF body.specs = Undef THEN <<>> ELSE SpecsOf(body.specs))

\* C11: after an admin create from valid fields was answered 201 with an id, a
\* GET /api/products/:id of that id, with no update or delete of the id in
\* between, is answered 200 with a record whose name, description, price,
\* original price, quantity, category, subcategory and specs equal the inputs
\* (numbers parsed, specs as a sequence).
C11_RoundTrip ==
    \A n \in 1..MaxProducts :
        (/\ resp.route = "GET" /\ resp.id = GoodId(n)
         /\ made[n].intact /\ ValidFields(made[n].body))
        => /\ resp.status = 200
           /\ resp.doc.id = n
           /\ FieldsEqualInputs(resp.doc, made[n].body)

\* the first product, created with an original price and two specs, is fetched
\* after a later product was created and then updated or deleted
C11_Witness ==
    /\ resp.route = "GET" /\ resp.id = GoodId(1) /\ resp.status = 200
    /\ made[1] = Made(BodyA)
    /\ nextId > 2 /\ ~made[2].intact
    /\ resp.doc.original_price = Dec(15, <<"5">>)
    /\ resp.doc.specs = <<<<"L">>, <<"M">>>>

=============================================================================
